---- MODULE Spec2Model ----
(***************************************************************************)
(* A model of the two utilities of the repository:                         *)
(*   extract_transcript.py   - extract_transcript_text, the change handler *)
(*                             TranscriptChangeHandler and the main block  *)
(*   generate_folder_tree.py - generate_directory_tree                     *)
(* Text is modelled character by character: a string is a sequence of      *)
(* one-character strings, and so is a path; transcript.txt and its cleaned *)
(* copy are strings, the tree listing is a sequence of lines.              *)
(***************************************************************************)
EXTENDS Integers, Sequences, FiniteSets, TLC

VARIABLES
    \* ---- extraction on its own (SpecExtract)
    exLines,      \* the lines the transcript was written from, without their newlines
    exFinalNL,    \* whether the last line of the file ends with a newline
    exExists,     \* os.path.exists(file_path)
    exPc,         \* "call" | "returned"
    exResult,     \* the value extract_transcript_text returned
    \* ---- the transcript cleaner process (Spec, SpecLive)
    scriptDir,    \* script_dir
    tExists,      \* transcript.txt exists
    tContent,     \* content of transcript.txt
    outFile,      \* content of cleaned_transcript.txt, or Absent
    mainPc,       \* position of the main thread
    obsPc,        \* position of the observer thread
    procPc,       \* position inside _process / extract_transcript_text
    cleaned,      \* the local cleaned_text of _process
    queue,        \* the observer's event queue
    stopReq,      \* observer.stop() was called
    exitPath,     \* how the process exited
    envDone,      \* the environment has stopped touching the directory
    hist,         \* history of the run, read only by the properties
    \* ---- the directory tree printer (SpecTree)
    root_dir,     \* the argument root_dir
    rootIsDir,    \* os.path.isdir(root_dir)
    treeFile,     \* the output file: Absent or a sequence of lines
    treeFile0,    \* the output file as it was before the call
    treePc,       \* "call" | "walk" | "returned"
    stack,        \* os.walk's pending directories
    visited,      \* history: the directories visited, with the level computed
    console,      \* what was printed
    ndirs         \* number of directories discovered so far

exVars == <<exLines, exFinalNL, exExists, exPc, exResult>>
wVars == <<scriptDir, tExists, tContent, outFile, mainPc, obsPc, procPc, cleaned,
           queue, stopReq, exitPath, envDone, hist>>
tVars == <<root_dir, rootIsDir, treeFile, treeFile0, treePc, stack, visited, console,
           ndirs>>
vars == <<exVars, wVars, tVars>>

\* A file that may not exist
Absent == [exists |-> FALSE, data |-> <<>>]
File(d) == [exists |-> TRUE, data |-> d]

\* ------------------------------------------------------------------------
\* Characters and strings
\* ------------------------------------------------------------------------
Whitespace == {" ", "\t", "\n", "\r"}
Digits == {"0", "1", "2", "3", "4", "5", "6", "7", "8", "9"}
TimeChars == Digits \cup {":"}
Sep == "/"

Speaker == <<"S", "p", "e", "a", "k", "e", "r">>
Dash == <<"-">>
CommentMarker == <<"/", "/">>
MinTimeLen == 5

\* s.startswith(p)
startswith(s, p) == Len(s) >= Len(p) /\ SubSeq(s, 1, Len(p)) = p

RECURSIVE lstrip(_)
lstrip(s) == IF s # <<>> /\ Head(s) \in Whitespace THEN lstrip(Tail(s)) ELSE s

\* the first n characters of s without their trailing whitespace
RECURSIVE rstripTo(_, _)
rstripTo(s, n) ==
    IF n > 0 /\ s[n] \in Whitespace THEN rstripTo(s, n - 1) ELSE SubSeq(s, 1, n)

rstrip(s) == rstripTo(s, Len(s))

\* line.strip()
strip(s) == rstrip(lstrip(s))

\* f.readlines(): the text cut after each newline, every line keeping its newline
RECURSIVE readlinesFrom(_, _)
readlinesFrom(text, cur) ==
    IF text = <<>> THEN (IF cur = <<>> THEN <<>> ELSE <<cur>>)
    ELSE IF Head(text) = "\n" THEN <<Append(cur, "\n")>> \o readlinesFrom(Tail(text), <<>>)
    ELSE readlinesFrom(Tail(text), Append(cur, Head(text)))

readlines(text) == readlinesFrom(text, <<>>)

\* ' '.join(parts)
RECURSIVE join(_)
join(parts) ==
    IF parts = <<>> THEN <<>>
    ELSE IF Len(parts) = 1 THEN parts[1]
    ELSE parts[1] \o <<" ">> \o join(Tail(parts))

\* ------------------------------------------------------------------------
\* The regular expression of extract_transcript_text,
\*   ^Speaker\s+\d+\s+[\d:]{5,}\s+-\s+[\d:]{5,}\s*$
\* matched from position 1. A position is an index into the string, 0 for
\* "no match". Neighbouring pieces of the expression accept disjoint sets of
\* characters, so the greedy match is the only one there is.
\* ------------------------------------------------------------------------
RECURSIVE SkipSet(_, _, _)
SkipSet(s, i, set) ==
    IF i <= Len(s) /\ s[i] \in set THEN SkipSet(s, i + 1, set) ELSE i

MatchLit(s, i, lit) ==
    IF i > 0 /\ i + Len(lit) - 1 <= Len(s) /\ SubSeq(s, i, i + Len(lit) - 1) = lit
    THEN i + Len(lit) ELSE 0

MatchMany(s, i, set, min) ==
    IF i = 0 THEN 0
    ELSE LET j == SkipSet(s, i, set) IN IF j - i >= min THEN j ELSE 0

\* one piece of the expression: a literal, or a run of at least min
\* characters of a set
Lit(l) == [lit |-> l, set |-> {}, min |-> 0]
Many(set, min) == [lit |-> <<>>, set |-> set, min |-> min]

MatchPiece(s, i, piece) ==
    IF piece.lit # <<>> THEN MatchLit(s, i, piece.lit)
    ELSE MatchMany(s, i, piece.set, piece.min)

\* the position after the pieces matched one after the other from i (the
\* position after the first piece is computed once, as the one element j of
\* a set, and the rest is matched from j)
RECURSIVE MatchPieces(_, _, _)
MatchPieces(s, i, pieces) ==
    IF pieces = <<>> THEN i
    ELSE CHOOSE r \in {MatchPieces(s, j, Tail(pieces)) :
                          j \in {MatchPiece(s, i, Head(pieces))}} : TRUE

\* Speaker\s+\d+\s+[\d:]{5,}\s+-\s+[\d:]{5,}\s*
HeaderPattern ==
    <<Lit(Speaker), Many(Whitespace, 1), Many(Digits, 1), Many(Whitespace, 1),
      Many(TimeChars, MinTimeLen), Many(Whitespace, 1), Lit(Dash), Many(Whitespace, 1),
      Many(TimeChars, MinTimeLen), Many(Whitespace, 0)>>

\* variant: the expression without its final \s*$, so that text may follow
MutHeaderNoAnchor(t) == MatchPieces(t, 1, HeaderPattern) > 0

\* re.match(pattern, t): ^ is position 1, and $ wants the match to reach
\* the end of the stripped line
re_match_header(t) == MatchPieces(t, 1, HeaderPattern) = Len(t) + 1

\* the condition of the list comprehension
keep_line(line) ==
    /\ ~re_match_header(strip(line))
    /\ strip(line) # <<>>
    /\ ~startswith(strip(line), CommentMarker)

RECURSIVE text_lines(_)
text_lines(ls) ==
    IF ls = <<>> THEN <<>>
    ELSE (IF keep_line(Head(ls)) THEN <<strip(Head(ls))>> ELSE <<>>) \o text_lines(Tail(ls))

\* what extract_transcript_text returns for a file that is read as text
clean_text(text) == join(text_lines(readlines(text)))

ErrPrefix == <<"E", "r", "r", "o", "r", ":", " ", "F", "i", "l", "e", " ", "n", "o", "t",
               " ", "f", "o", "u", "n", "d", " ", "a", "t", " ">>

\* f"Error: File not found at {file_path}"
not_found_message(path) == ErrPrefix \o path

\* ------------------------------------------------------------------------
\* Extraction on its own: extract_transcript_text applied to one file
\* ------------------------------------------------------------------------
MaxLines == 3

L_header == <<"S", "p", "e", "a", "k", "e", "r", " ", "1", " ", "0", ":", "0", "0", ":",
              "0", "1", " ", "-", " ", "0", ":", "0", "0", ":", "0", "5">>
L_hello == <<"H", "e", "l", "l", "o", " ", "w", "o", "r", "l", "d">>
L_blank == <<>>
L_comment == <<"/", "/", " ", "c", "o", "m", "m", "e", "n", "t">>
L_second == <<"S", "e", "c", "o", "n", "d", " ", "l", "i", "n", "e">>
\* a first time token of 4 characters
L_short == <<"S", "p", "e", "a", "k", "e", "r", " ", "1", " ", "0", ":", "0", "1", " ",
             "-", " ", "0", ":", "0", "0", ":", "0", "5">>
\* text after the second time token
L_trail == <<"S", "p", "e", "a", "k", "e", "r", " ", "1", " ", "0", ":", "0", "0", ":",
             "0", "1", " ", "-", " ", "0", ":", "0", "0", ":", "0", "5", " ", "x">>
\* no speaker number
L_nonum == <<"S", "p", "e", "a", "k", "e", "r", " ", "0", ":", "0", "0", ":", "0", "1",
             " ", "-", " ", "0", ":", "0", "0", ":", "0", "5">>
\* a header with surrounding and repeated whitespace and a token of colons
L_padded == <<" ", "\t", "S", "p", "e", "a", "k", "e", "r", " ", " ", "1", "2", " ", "0",
              "0", ":", "1", "0", " ", " ", "-", " ", " ", ":", ":", ":", ":", ":", " ">>
L_padcom == <<" ", " ", "/", "/", "x">>
L_spaces == <<" ", " ">>
L_padtext == <<" ", "a", " ", "/", " ", "b", " ">>

LinePool == {L_header, L_hello, L_blank, L_comment, L_second, L_short, L_trail,
             L_nonum, L_padded, L_padcom, L_spaces, L_padtext}

ExampleLines == <<L_header, L_hello, L_blank, L_comment, L_second>>
HelloSecond == <<"H", "e", "l", "l", "o", " ", "w", "o", "r", "l", "d", " ", "S", "e", "c",
                 "o", "n", "d", " ", "l", "i", "n", "e">>

SeqsUpTo(S, n) == UNION {[1..k -> S] : k \in 0..n}

\* the text of a file written from the lines ls
RECURSIVE FileText(_, _)
FileText(ls, finalNL) ==
    IF ls = <<>> THEN <<>>
    ELSE IF Len(ls) = 1 THEN ls[1] \o (IF finalNL THEN <<"\n">> ELSE <<>>)
    ELSE ls[1] \o <<"\n">> \o FileText(Tail(ls), finalNL)

ExPath == <<"t">>

ExParked ==
    /\ exLines = <<>> /\ exFinalNL = FALSE /\ exExists = FALSE
    /\ exPc = "parked" /\ exResult = <<>>

ExInit ==
    /\ exLines \in SeqsUpTo(LinePool, MaxLines) \cup {ExampleLines}
    /\ exFinalNL \in BOOLEAN
    /\ exExists \in BOOLEAN
    /\ exExists = FALSE => exLines = <<>> /\ exFinalNL = FALSE
    /\ exPc = "call"
    /\ exResult = <<>>

\* extract_transcript_text(file_path), with nothing else touching the file
extract_transcript_text ==
    /\ exPc = "call"
    /\ \/ /\ ~exExists
          /\ exResult' = not_found_message(ExPath)
       \/ /\ exExists
          /\ exResult' = clean_text(FileText(exLines, exFinalNL))
    /\ exPc' = "returned"
    /\ UNCHANGED <<exLines, exFinalNL, exExists>>

\* ------------------------------------------------------------------------
\* Paths
\* ------------------------------------------------------------------------
\* os.path.join(a, b) for a relative b
path_join(a, b) ==
    IF a = <<>> \/ a[Len(a)] = Sep THEN a \o b ELSE a \o <<Sep>> \o b

\* the index of the last separator of p[1..n], 0 when there is none
RECURSIVE rfind_sep(_, _)
rfind_sep(p, n) == IF n = 0 \/ p[n] = Sep THEN n ELSE rfind_sep(p, n - 1)

\* os.path.basename(p): what follows the last separator
basename(p) == SubSeq(p, rfind_sep(p, Len(p)) + 1, Len(p))

\* whether sub occurs in s
Contains(s, sub) ==
    \E i \in 1..(Len(s) - Len(sub) + 1) : SubSeq(s, i, i + Len(sub) - 1) = sub

\* ------------------------------------------------------------------------
\* The transcript cleaner: main block, TranscriptChangeHandler, observer
\* ------------------------------------------------------------------------
MaxQueue == 2

transcript_file == <<"t", "r", "a", "n", "s", "c", "r", "i", "p", "t", ".", "t", "x", "t">>
output_file == <<"c", "l", "e", "a", "n", "e", "d", "_">> \o transcript_file
other_file == <<"n", "o", "t", "e", "s">>

\* the directories the script may be run from
ScriptDirs == {<<"/", "w">>, <<"/", "d">> \o <<Sep>> \o transcript_file}

file_path == path_join(scriptDir, transcript_file)
output_path == path_join(scriptDir, output_file)

\* the contents the environment writes to transcript.txt
Contents == {FileText(<<L_header, L_hello>>, TRUE),
             FileText(ExampleLines, FALSE),
             FileText(<<L_comment, L_short>>, TRUE)}

\* what extract_transcript_text returns for each of these contents
CleanedOf == [c \in Contents |-> clean_text(c)]

FileModifiedEvent(path) == [is_directory |-> FALSE, src_path |-> path]
DirModifiedEvent(path) == [is_directory |-> TRUE, src_path |-> path]

NoEvent == [is_directory |-> FALSE, src_path |-> <<>>]

\* the observer thread is alive and its watch on script_dir delivers events
Watching == obsPc \in {"idle", "handling"}

Emit(q, e) == IF Watching THEN Append(q, e) ELSE q

HistInit ==
    [initCycles |-> 0,          \* cycles completed inside the constructor
     completed |-> FALSE,       \* some cycle has completed
     lastResult |-> <<>>,       \* what extraction returned in the last completed cycle
     lastMissing |-> FALSE,     \* the file was missing when the last extraction looked
     lastOutcome |-> "none",    \* "returned" | "raised": how the last extraction ended
     lastEvent |-> NoEvent,     \* the last event given to on_modified
     lastTriggered |-> FALSE,   \* whether on_modified started a cycle for it
     outAtEvent |-> Absent,     \* the output file when that event was handled
     interrupted |-> FALSE, stopped |-> FALSE, joined |-> FALSE,
     cycleAfterJoin |-> FALSE,  \* a cycle started after observer.join() returned
     earlyChange |-> FALSE,     \* transcript.txt changed before the initial cycle ended
     deleted |-> FALSE]         \* transcript.txt was deleted at some time

WParked ==
    /\ scriptDir = <<>> /\ tExists = FALSE /\ tContent = <<>> /\ outFile = Absent
    /\ mainPc = "parked" /\ obsPc = "parked" /\ procPc = "parked" /\ cleaned = <<>>
    /\ queue = <<>> /\ stopReq = FALSE /\ exitPath = "none" /\ envDone = TRUE
    /\ hist = HistInit

WInit ==
    /\ scriptDir \in ScriptDirs
    /\ tExists \in BOOLEAN
    /\ tContent \in Contents
    /\ outFile \in {Absent, File(<<"o", "l", "d">>)}
    /\ mainPc = "check"
    /\ obsPc = "unstarted"
    /\ procPc = "idle"
    /\ cleaned = <<>>
    /\ queue = <<>>
    /\ stopReq = FALSE
    /\ exitPath = "none"
    /\ envDone = FALSE
    /\ hist = HistInit

\* ---- the environment ----------------------------------------------------
Running == mainPc # "exited"

\* some program writes transcript.txt (creating it when it is missing)
EnvWrite ==
    /\ Running /\ ~envDone
    /\ Watching => Len(queue) < MaxQueue
    /\ \E c \in Contents :
          /\ tContent' = c
          /\ tExists' = TRUE
    /\ queue' = Emit(queue, FileModifiedEvent(file_path))
    /\ hist' = [hist EXCEPT !.earlyChange = @ \/ mainPc \in {"check", "construct"}]
    /\ UNCHANGED <<scriptDir, outFile, mainPc, obsPc, procPc, cleaned, stopReq,
                   exitPath, envDone>>

\* transcript.txt is deleted: the directory is reported modified
EnvDelete ==
    /\ Running /\ ~envDone
    /\ tExists
    /\ Watching => Len(queue) < MaxQueue
    /\ tExists' = FALSE
    /\ queue' = Emit(queue, DirModifiedEvent(scriptDir))
    /\ hist' = [hist EXCEPT
                  !.earlyChange = @ \/ mainPc \in {"check", "construct"},
                  !.deleted = TRUE]
    /\ UNCHANGED <<scriptDir, tContent, outFile, mainPc, obsPc, procPc, cleaned,
                   stopReq, exitPath, envDone>>

\* another file of the directory is modified
EnvOther ==
    /\ Running /\ ~envDone
    /\ Watching /\ Len(queue) < MaxQueue
    /\ queue' = Append(queue, FileModifiedEvent(path_join(scriptDir, other_file)))
    /\ UNCHANGED <<scriptDir, tExists, tContent, outFile, mainPc, obsPc, procPc,
                   cleaned, stopReq, exitPath, envDone, hist>>

\* from now on nothing but the cleaner touches the directory
EnvStop ==
    /\ Running /\ ~envDone
    /\ envDone' = TRUE
    /\ UNCHANGED <<scriptDir, tExists, tContent, outFile, mainPc, obsPc, procPc,
                   cleaned, queue, stopReq, exitPath, hist>>

\* ---- _process and extract_transcript_text, run by the thread owner -----
\* The thread that is inside _process: the main thread while it constructs
\* the handler, the observer thread while it handles an event.
Owner == IF mainPc = "construct" THEN "main" ELSE "observer"

\* line 19: os.path.exists(file_path)
ProcExists ==
    /\ procPc = "exists"
    /\ IF tExists
       THEN /\ procPc' = "read"
            /\ UNCHANGED <<cleaned, hist>>
       ELSE /\ procPc' = "open"
            /\ cleaned' = not_found_message(file_path)
            /\ hist' = [hist EXCEPT !.lastMissing = TRUE, !.lastOutcome = "returned"]
    /\ UNCHANGED <<scriptDir, tExists, tContent, outFile, mainPc, obsPc, queue,
                   stopReq, exitPath, envDone>>

\* lines 23-38: the sleep, then open, readlines, the filter and the join.
\* open raises FileNotFoundError when the file is gone by now; nothing
\* catches it, so it ends the thread it is raised in.
ProcRead ==
    /\ procPc = "read"
    /\ IF tExists
       THEN /\ procPc' = "open"
            /\ cleaned' = CleanedOf[tContent]
            /\ hist' = [hist EXCEPT !.lastMissing = FALSE, !.lastOutcome = "returned"]
            /\ UNCHANGED <<mainPc, obsPc, exitPath>>
       ELSE /\ procPc' = "idle"
            /\ hist' = [hist EXCEPT !.lastMissing = TRUE, !.lastOutcome = "raised"]
            /\ IF Owner = "main"
               THEN mainPc' = "exited" /\ exitPath' = "exception" /\ UNCHANGED obsPc
               ELSE obsPc' = "crashed" /\ UNCHANGED <<mainPc, exitPath>>
            /\ UNCHANGED cleaned
    /\ UNCHANGED <<scriptDir, tExists, tContent, outFile, queue, stopReq, envDone>>

\* variant: the file opened in append mode
MutOpenAppend(f) == IF f.exists THEN f ELSE File(<<>>)

\* what open(path, 'w') leaves of the file f: it exists and is empty
open_w(f) == File(<<>>)

\* line 57: open(self.output_file_path, 'w')
ProcOpen ==
    /\ procPc = "open"
    /\ outFile' = open_w(outFile)
    /\ procPc' = "write"
    /\ UNCHANGED <<scriptDir, tExists, tContent, mainPc, obsPc, cleaned, queue,
                   stopReq, exitPath, envDone, hist>>

\* lines 58-62: f.write(cleaned_text), the file is closed, the prints; _process
\* returns to __init__ (line 47) or to on_modified (line 52)
ProcWrite ==
    /\ procPc = "write"
    /\ outFile' = File(outFile.data \o cleaned)
    /\ queue' = Emit(queue, FileModifiedEvent(output_path))
    /\ procPc' = "idle"
    /\ IF Owner = "main"
       THEN /\ mainPc' = "schedule"
            /\ hist' = [hist EXCEPT !.initCycles = @ + 1, !.completed = TRUE,
                                    !.lastResult = cleaned]
            /\ UNCHANGED obsPc
       ELSE /\ obsPc' = "idle"
            /\ hist' = [hist EXCEPT !.completed = TRUE, !.lastResult = cleaned]
            /\ UNCHANGED mainPc
    /\ UNCHANGED <<scriptDir, tExists, tContent, cleaned, stopReq, exitPath, envDone>>

\* ---- the main thread ------------------------------------------------------
\* variant: a constructor that does not call _process
MutCheckNoStartupCycle ==
    /\ mainPc = "check"
    /\ IF tExists
       THEN mainPc' = "schedule" /\ UNCHANGED exitPath
       ELSE mainPc' = "exited" /\ exitPath' = "missing"
    /\ UNCHANGED <<scriptDir, tExists, tContent, outFile, obsPc, procPc, cleaned,
                   queue, stopReq, envDone, hist>>

\* lines 74-79: the transcript must exist, or the script prints and exits;
\* then the handler is constructed, and __init__ (lines 44-47) calls _process
MainCheck ==
    /\ mainPc = "check"
    /\ IF tExists
       THEN mainPc' = "construct" /\ procPc' = "exists" /\ UNCHANGED exitPath
       ELSE mainPc' = "exited" /\ exitPath' = "missing" /\ UNCHANGED procPc
    /\ UNCHANGED <<scriptDir, tExists, tContent, outFile, obsPc, cleaned, queue,
                   stopReq, envDone, hist>>

\* lines 80-82: Observer(), observer.schedule(...)
MainSchedule ==
    /\ mainPc = "schedule"
    /\ mainPc' = "start"
    /\ UNCHANGED <<scriptDir, tExists, tContent, outFile, obsPc, procPc, cleaned,
                   queue, stopReq, exitPath, envDone, hist>>

\* line 84: observer.start()
MainStart ==
    /\ mainPc = "start"
    /\ mainPc' = "loop"
    /\ obsPc' = "idle"
    /\ UNCHANGED <<scriptDir, tExists, tContent, outFile, procPc, cleaned, queue,
                   stopReq, exitPath, envDone, hist>>

\* A keyboard interrupt reaches the main thread. Inside the try block
\* (lines 86-88) it is caught; anywhere else it ends the process.
Interrupt ==
    /\ Running
    /\ IF mainPc = "loop"
       THEN mainPc' = "stop" /\ UNCHANGED exitPath
       ELSE mainPc' = "exited" /\ exitPath' = "uncaught"
    /\ hist' = [hist EXCEPT !.interrupted = TRUE]
    /\ UNCHANGED <<scriptDir, tExists, tContent, outFile, obsPc, procPc, cleaned,
                   queue, stopReq, envDone>>

\* line 90: observer.stop()
MainStop ==
    /\ mainPc = "stop"
    /\ stopReq' = TRUE
    /\ mainPc' = "join"
    /\ hist' = [hist EXCEPT !.stopped = TRUE]
    /\ UNCHANGED <<scriptDir, tExists, tContent, outFile, obsPc, procPc, cleaned,
                   queue, exitPath, envDone>>

\* variant: a join that does not wait for the observer thread
MutJoinNoWait ==
    /\ mainPc = "join"
    /\ mainPc' = "joined"
    /\ hist' = [hist EXCEPT !.joined = TRUE]
    /\ UNCHANGED <<scriptDir, tExists, tContent, outFile, obsPc, procPc, cleaned,
                   queue, stopReq, exitPath, envDone>>

\* line 93: observer.join() returns once the observer thread has ended
MainJoin ==
    /\ mainPc = "join"
    /\ obsPc \in {"terminated", "crashed"}
    /\ mainPc' = "joined"
    /\ hist' = [hist EXCEPT !.joined = TRUE]
    /\ UNCHANGED <<scriptDir, tExists, tContent, outFile, obsPc, procPc, cleaned,
                   queue, stopReq, exitPath, envDone>>

\* the end of the script
MainExit ==
    /\ mainPc = "joined"
    /\ mainPc' = "exited"
    /\ exitPath' = "normal"
    /\ UNCHANGED <<scriptDir, tExists, tContent, outFile, obsPc, procPc, cleaned,
                   queue, stopReq, envDone, hist>>

\* ---- the observer thread --------------------------------------------------
\* variant: the condition without the comparison of base names
MutOnModifiedAnyName(event) == ~event.is_directory

\* line 50: the condition of on_modified
on_modified_matches(event) ==
    ~event.is_directory /\ basename(event.src_path) = basename(file_path)

\* lines 49-52: the observer thread takes the next event and calls
\* on_modified (an event queued before observer.stop() may still be handled
\* until the thread has ended)
on_modified ==
    /\ obsPc = "idle" /\ Running
    /\ queue # <<>>
    /\ queue' = Tail(queue)
    /\ IF on_modified_matches(Head(queue))
       THEN obsPc' = "handling" /\ procPc' = "exists"
       ELSE UNCHANGED <<obsPc, procPc>>
    /\ hist' = [hist EXCEPT !.lastEvent = Head(queue),
                            !.lastTriggered = (procPc' = "exists"),
                            !.outAtEvent = outFile,
                            !.cycleAfterJoin = @ \/ (hist.joined /\ procPc' = "exists")]
    /\ UNCHANGED <<scriptDir, tExists, tContent, outFile, mainPc, cleaned, stopReq,
                   exitPath, envDone>>

\* after observer.stop() the observer thread ends once it is between events
ObserverEnd ==
    /\ obsPc = "idle" /\ Running
    /\ stopReq
    /\ obsPc' = "terminated"
    /\ UNCHANGED <<scriptDir, tExists, tContent, outFile, mainPc, procPc, cleaned,
                   queue, stopReq, exitPath, envDone, hist>>

MainStep == MainCheck \/ MainSchedule \/ MainStart \/ MainStop \/ MainJoin \/ MainExit
ProcStep == ProcExists \/ ProcRead \/ ProcOpen \/ ProcWrite
ObserverStep == on_modified \/ ObserverEnd
EnvStep == EnvWrite \/ EnvDelete \/ EnvOther \/ EnvStop

\* ------------------------------------------------------------------------
\* The directory tree printer: generate_directory_tree
\* ------------------------------------------------------------------------
MaxDirs == 3

\* The box-drawing characters of the listing are written here as
\* | for U+2502, + for U+251C, L for U+2514 and - for U+2500.
Bar == <<"|", " ", " ", " ">>
Branch == <<"+", "-", "-", " ">>
LastBranch == <<"L", "-", "-", " ">>

HeaderPrefix ==
    <<"D", "i", "r", "e", "c", "t", "o", "r", "y", " ", "t", "r", "e", "e", " ", "f",
      "o", "r", ":", " ">>
ErrDirPrefix ==
    <<"E", "r", "r", "o", "r", ":", " ", "D", "i", "r", "e", "c", "t", "o", "r", "y",
      " ", "'">>
ErrDirSuffix ==
    <<"'", " ", "n", "o", "t", " ", "f", "o", "u", "n", "d", ".">>
SavedPrefix ==
    <<"D", "i", "r", "e", "c", "t", "o", "r", "y", " ", "s", "t", "r", "u", "c", "t",
      "u", "r", "e", " ", "h", "a", "s", " ", "b", "e", "e", "n", " ", "s", "a", "v",
      "e", "d", " ", "t", "o", " ", "'">>
tree_output_file ==
    <<"f", "o", "l", "d", "e", "r", "_", "s", "t", "r", "u", "c", "t", "u", "r", "e",
      ".", "t", "x", "t">>

Roots == {<<"/", "r">>, <<"/", "a">>, <<"/", "r", "/">>}
DirNames == {<<"a">>, <<"b">>}
A_txt == <<"a", ".", "t", "x", "t">>
B_txt == <<"b", ".", "t", "x", "t">>
FileLists == {<<>>, <<A_txt>>, <<A_txt, B_txt>>}

\* the lists of distinct directory names of at most n names
DirNameLists(n) ==
    {l \in SeqsUpTo(DirNames, Cardinality(DirNames)) :
        Len(l) <= n /\ \A i, j \in 1..Len(l) : i # j => l[i] # l[j]}

\* s.replace(old, ''), for a non-empty old
RECURSIVE str_remove(_, _)
str_remove(s, old) ==
    IF Len(s) < Len(old) THEN s
    ELSE IF startswith(s, old) THEN str_remove(SubSeq(s, Len(old) + 1, Len(s)), old)
    ELSE <<Head(s)>> \o str_remove(Tail(s), old)

\* s.count(c) for a character c
RECURSIVE str_count(_, _)
str_count(s, c) ==
    IF s = <<>> THEN 0 ELSE (IF Head(s) = c THEN 1 ELSE 0) + str_count(Tail(s), c)

\* piece * n
RECURSIVE Rep(_, _)
Rep(piece, n) == IF n <= 0 THEN <<>> ELSE piece \o Rep(piece, n - 1)

\* line 22
level_of(dirpath, root) == str_count(str_remove(dirpath, root), Sep)

\* line 23
indent_of(level) == IF level > 0 THEN Rep(Bar, level - 1) \o Branch ELSE <<>>

\* line 26, without the newline
dir_line(dirpath, root) ==
    indent_of(level_of(dirpath, root)) \o basename(dirpath) \o <<"/">>

\* line 33, for the i-th of n files (i counted from 1)
connector(i, n) == IF i = n THEN LastBranch ELSE Branch

\* lines 31-34, without the newlines
file_lines(level, filenames) ==
    [i \in 1..Len(filenames) |->
        Rep(Bar, level) \o connector(i, Len(filenames)) \o filenames[i]]

TParked ==
    /\ root_dir = <<>> /\ rootIsDir = FALSE /\ treeFile = Absent /\ treeFile0 = Absent
    /\ treePc = "parked" /\ stack = <<>> /\ visited = <<>> /\ console = <<>>
    /\ ndirs = 0

TInit ==
    /\ root_dir \in Roots
    /\ rootIsDir \in BOOLEAN
    /\ treeFile \in {Absent, File(<<<<"o", "l", "d">>>>)}
    /\ treeFile0 = treeFile
    /\ treePc = "call"
    /\ stack = <<>>
    /\ visited = <<>>
    /\ console = <<>>
    /\ ndirs = 0

\* variant: the output file opened before the root is checked
MutNotDirAfterOpen ==
    /\ treePc = "call"
    /\ ~rootIsDir
    /\ treeFile' = File(<<>>)
    /\ console' = Append(console, ErrDirPrefix \o root_dir \o ErrDirSuffix)
    /\ treePc' = "returned"
    /\ UNCHANGED <<root_dir, rootIsDir, treeFile0, stack, visited, ndirs>>

\* lines 11-13: the root is no directory
TreeNotDir ==
    /\ treePc = "call"
    /\ ~rootIsDir
    /\ console' = Append(console, ErrDirPrefix \o root_dir \o ErrDirSuffix)
    /\ treePc' = "returned"
    /\ UNCHANGED <<root_dir, rootIsDir, treeFile, treeFile0, stack, visited, ndirs>>

\* lines 15-16: the output file is opened for writing and the header written
\* (the header ends with two newlines: a header line and an empty line)
TreeOpen ==
    /\ treePc = "call"
    /\ rootIsDir
    /\ treeFile' = File(<<HeaderPrefix \o root_dir, <<>>>>)
    /\ stack' = <<[path |-> root_dir, depth |-> 0]>>
    /\ ndirs' = 1
    /\ treePc' = "walk"
    /\ UNCHANGED <<root_dir, rootIsDir, treeFile0, visited, console>>

\* lines 20-34: one iteration of the loop over os.walk(root_dir). os.walk
\* yields a directory, then walks its subdirectories in the order listed.
TreeVisit ==
    /\ treePc = "walk"
    /\ stack # <<>>
    /\ \E dirnames \in DirNameLists(MaxDirs - ndirs), filenames \in FileLists :
          LET dirpath == Head(stack).path
              level == level_of(dirpath, root_dir)
              children == [i \in 1..Len(dirnames) |->
                              [path |-> path_join(dirpath, dirnames[i]),
                               depth |-> Head(stack).depth + 1]]
          IN  /\ treeFile' = File(treeFile.data \o <<dir_line(dirpath, root_dir)>>
                                    \o file_lines(level, filenames))
              /\ stack' = children \o Tail(stack)
              /\ ndirs' = ndirs + Len(dirnames)
              /\ visited' = Append(visited, [path |-> dirpath,
                                             depth |-> Head(stack).depth,
                                             level |-> level,
                                             files |-> filenames])
    /\ UNCHANGED <<root_dir, rootIsDir, treeFile0, treePc, console>>

\* line 36: the walk is over, the file is closed, the confirmation printed
TreeDone ==
    /\ treePc = "walk"
    /\ stack = <<>>
    /\ console' = Append(console, SavedPrefix \o tree_output_file \o <<"'">>)
    /\ treePc' = "returned"
    /\ UNCHANGED <<root_dir, rootIsDir, treeFile, treeFile0, stack, visited, ndirs>>

\* ------------------------------------------------------------------------
\* Specifications
\* ------------------------------------------------------------------------
\* the transcript cleaner
Init == WInit /\ ExParked /\ TParked

Next ==
    \/ (MainStep /\ UNCHANGED <<exVars, tVars>>)
    \/ (Interrupt /\ UNCHANGED <<exVars, tVars>>)
    \/ (Running /\ ProcStep /\ UNCHANGED <<exVars, tVars>>)
    \/ (ObserverStep /\ UNCHANGED <<exVars, tVars>>)
    \/ (EnvStep /\ UNCHANGED <<exVars, tVars>>)

Spec == Init /\ [][Next]_vars

\* the transcript cleaner with its threads scheduled fairly: a thread that
\* can take a step takes one; the environment and the interrupt owe nothing
SpecLive ==
    /\ Init /\ [][Next]_vars
    /\ WF_vars(MainStep /\ UNCHANGED <<exVars, tVars>>)
    /\ WF_vars(Running /\ ProcStep /\ UNCHANGED <<exVars, tVars>>)
    /\ WF_vars(ObserverStep /\ UNCHANGED <<exVars, tVars>>)

\* extraction on its own
InitExtract == ExInit /\ WParked /\ TParked
NextExtract == extract_transcript_text /\ UNCHANGED <<wVars, tVars>>
SpecExtract == InitExtract /\ [][NextExtract]_vars

\* the directory tree printer
InitTree == TInit /\ ExParked /\ WParked
NextTree == (TreeNotDir \/ TreeOpen \/ TreeVisit \/ TreeDone) /\ UNCHANGED <<exVars, wVars>>
SpecTree == InitTree /\ [][NextTree]_vars

\* ------------------------------------------------------------------------
\* Properties
\* ------------------------------------------------------------------------
\* The trimmed form of a line: from its first to its last character that is
\* not whitespace.
Trimmed(l) ==
    LET solid == {i \in 1..Len(l) : l[i] \notin Whitespace}
    IN  IF solid = {} THEN <<>>
        ELSE SubSeq(l, CHOOSE i \in solid : \A j \in solid : i <= j,
                       CHOOSE i \in solid : \A j \in solid : j <= i)

\* t[a..b-1] is at least min characters, all of them in set
Run(t, a, b, set, min) == b - a >= min /\ \A k \in a..(b - 1) : t[k] \in set

\* A speaker/timestamp header: "Speaker", digits, a time token of at least 5
\* digit/colon characters, a dash, another such token, nothing else, the
\* parts separated by whitespace.
IsHeaderLine(t) ==
    LET n == Len(t) IN
    /\ n >= 7
    /\ SubSeq(t, 1, 7) = <<"S", "p", "e", "a", "k", "e", "r">>
    /\ \E a \in 9..n : /\ Run(t, 8, a, Whitespace, 1)
        /\ \E b \in (a + 1)..n : /\ Run(t, a, b, Digits, 1)
            /\ \E c \in (b + 1)..n : /\ Run(t, b, c, Whitespace, 1)
                /\ \E d \in (c + 5)..n : /\ Run(t, c, d, Digits \cup {":"}, 5)
                    /\ \E e \in (d + 1)..n : /\ Run(t, d, e, Whitespace, 1)
                        /\ t[e] = "-"
                        /\ \E f \in (e + 2)..n : /\ Run(t, e + 1, f, Whitespace, 1)
                                                 /\ Run(t, f, n + 1, Digits \cup {":"}, 5)

Retained(t) ==
    /\ t # <<>>
    /\ ~(Len(t) >= 2 /\ t[1] = "/" /\ t[2] = "/")
    /\ ~IsHeaderLine(t)

\* the retained trimmed lines, in order, with one space between neighbours
ExpectedText(ls) ==
    LET kept == SelectSeq([i \in 1..Len(ls) |-> Trimmed(ls[i])], Retained)
        F[k \in 0..Len(kept)] ==
            IF k = 0 THEN <<>>
            ELSE IF k = 1 THEN kept[1]
            ELSE F[k - 1] \o <<" ">> \o kept[k]
    IN  F[Len(kept)]

\* C1: for every sequence of lines of an existing transcript,
\* extract_transcript_text returns the single-space join, in order, of the
\* trimmed lines that are non-empty, do not start with "//" and are no
\* speaker/timestamp header; the example of the specification yields
\* "Hello world Second line".
C1_ExtractionIsFilteredJoin ==
    (exPc = "returned" /\ exExists) =>
        /\ exResult = ExpectedText(exLines)
        /\ exLines = ExampleLines => exResult = HelloSecond

C1_Witness ==
    /\ exPc = "returned" /\ exExists
    /\ exLines = ExampleLines
    /\ exResult = HelloSecond

\* the condition the specification gives for an event to start a cycle
SameBaseName(event) == basename(event.src_path) = transcript_file

EventHandled == hist.lastEvent # NoEvent

\* C2 as stated: an event given to on_modified starts a cycle exactly when
\* the base name of its path is the base name of the tracked file; any other
\* event starts none and leaves the output file as it was.
C2_Original ==
    EventHandled =>
        /\ hist.lastTriggered <=> SameBaseName(hist.lastEvent)
        /\ ~hist.lastTriggered => outFile = hist.outAtEvent

\* C2 amended: an event given to on_modified starts a cycle exactly when it
\* is not a directory event and the base name of its path is the base name
\* of the tracked file; any other event (the events of the handler's own
\* writes among them) starts none and leaves the output file as it was.
C2_CycleIffFileEventOfTranscript ==
    EventHandled =>
        /\ hist.lastTriggered <=>
              (~hist.lastEvent.is_directory /\ SameBaseName(hist.lastEvent))
        /\ ~hist.lastTriggered => outFile = hist.outAtEvent
        /\ hist.lastEvent.src_path = output_path => ~hist.lastTriggered

C2_Witness ==
    /\ hist.lastEvent = FileModifiedEvent(file_path)
    /\ hist.lastTriggered
    /\ procPc = "exists" /\ obsPc = "handling"

Synced == outFile = File(ExpectedText(readlines(tContent)))

\* the case C3 is about: the process runs and is not interrupted, and
\* transcript.txt is only written, and only after the initial cycle
C3_Scope ==
    /\ Running
    /\ ~hist.interrupted
    /\ ~hist.earlyChange
    /\ ~hist.deleted

\* C3 as stated: if the writes to transcript.txt, made at any time after the
\* initial cycle, eventually stop and the process is not interrupted, then
\* eventually, and from then on, cleaned_transcript.txt holds the cleaned
\* text of the final content of transcript.txt.
C3_Original == <>[](envDone /\ C3_Scope) => <>[]Synced

\* C4: between cycles, once a cycle has completed, the output file holds
\* exactly the string extraction returned in the last completed cycle (the
\* cleaned text or the "Error: ..." string), nothing before or after it.
C4_OutputIsLastResult ==
    (hist.completed /\ procPc = "idle") => outFile = File(hist.lastResult)

C4_Witness ==
    /\ hist.completed /\ procPc = "idle" /\ obsPc = "idle"
    /\ hist.lastTriggered
    /\ hist.outAtEvent.exists /\ hist.outAtEvent.data # <<>>
    /\ hist.outAtEvent # outFile
    /\ outFile = File(hist.lastResult)

ErrorWord == <<"E", "r", "r", "o", "r", ":">>

\* C5 as stated: whenever the transcript is missing when extraction goes to
\* read it, the gap between the existence check and the read included,
\* extraction raises nothing and returns a string that begins with "Error:"
\* and contains the path.
C5_Original ==
    (hist.lastMissing /\ hist.lastOutcome # "none") =>
        /\ hist.lastOutcome = "returned"
        /\ startswith(cleaned, ErrorWord)
        /\ Contains(cleaned, file_path)

Exited == mainPc = "exited"

\* C6 as stated: whenever the process has exited, an interrupt, observer.stop
\* and observer.join came before, in that order, and no cycle started after
\* the join returned.
C6_Original ==
    /\ Exited => hist.interrupted /\ hist.stopped /\ hist.joined
    /\ hist.joined => hist.stopped
    /\ hist.stopped => hist.interrupted
    /\ ~hist.cycleAfterJoin

\* C6 amended: the process exits before the observer is started when
\* transcript.txt is missing at startup or the initial cycle raises; every
\* other exit comes after a keyboard interrupt. An exit by the end of the
\* script is preceded by the interrupt, observer.stop and observer.join in
\* that order (an interrupt outside the try block ends the process at once),
\* and no cycle starts or runs after the join has returned.
C6_ExitPaths ==
    /\ Exited <=> exitPath # "none"
    /\ exitPath \in {"missing", "exception"} => obsPc = "unstarted"
    /\ (Exited /\ exitPath \notin {"missing", "exception"}) => hist.interrupted
    /\ exitPath = "normal" => hist.joined
    /\ hist.joined => hist.stopped /\ stopReq
    /\ hist.stopped => hist.interrupted
    /\ hist.joined => obsPc \in {"terminated", "crashed"} /\ procPc = "idle"
    /\ ~hist.cycleAfterJoin

C6_Witness ==
    /\ Exited /\ exitPath = "normal"
    /\ hist.interrupted /\ hist.stopped /\ hist.joined
    /\ obsPc = "terminated"
    /\ hist.lastTriggered

\* C7: the constructor runs exactly one complete cycle, and it is over
\* before the observer is scheduled and started: whenever the main thread is
\* past the constructor, or the observer thread exists, or an event has been
\* handled, the initial cycle has completed and the output file exists.
C7_StartupCycleBeforeObserver ==
    /\ hist.initCycles <= 1
    /\ mainPc \in {"check", "construct"} => obsPc = "unstarted" /\ hist.initCycles = 0
    /\ (mainPc \in {"schedule", "start", "loop", "stop", "join", "joined"}
            \/ obsPc # "unstarted") =>
          hist.initCycles = 1 /\ outFile.exists
    /\ EventHandled => hist.outAtEvent.exists

C7_Witness ==
    /\ EventHandled
    /\ hist.lastEvent = FileModifiedEvent(file_path)
    /\ hist.initCycles = 1
    /\ hist.outAtEvent.exists

\* C8: when root_dir is no directory, generate_directory_tree prints an
\* error that contains the path, prints no confirmation, and leaves the
\* output file as it was: not created, not truncated.
C8_NotDirWritesNothing ==
    (treePc = "returned" /\ ~rootIsDir) =>
        /\ treeFile = treeFile0
        /\ Len(console) = 1
        /\ startswith(console[1], ErrorWord)
        /\ Contains(console[1], root_dir)
        /\ ~startswith(console[1], SavedPrefix)

C8_Witness ==
    /\ treePc = "returned" /\ ~rootIsDir
    /\ treeFile0.exists /\ treeFile = treeFile0
    /\ Len(console) = 1

\* the lines C9 gives for a visited directory v, from its depth in the tree
ClaimedLines(v) ==
    <<(IF v.depth = 0 THEN <<>> ELSE Rep(Bar, v.depth - 1) \o Branch)
        \o basename(v.path) \o <<"/">>>>
    \o [i \in 1..Len(v.files) |->
          Rep(Bar, v.depth) \o (IF i = Len(v.files) THEN LastBranch ELSE Branch)
            \o v.files[i]]

RECURSIVE ClaimedListing(_)
ClaimedListing(vs) ==
    IF vs = <<>> THEN <<>> ELSE ClaimedLines(Head(vs)) \o ClaimedListing(Tail(vs))

\* C9 as stated: the file is the header naming the root followed, for each
\* directory in traversal order, by its directory line (no prefix at depth
\* 0, depth-1 bars and the branch connector below, then the base name and
\* "/") and one line per file, one level deeper, the last file with the
\* "last" connector and the others with the "continuing" one.
C9_Original ==
    (rootIsDir /\ treePc \in {"walk", "returned"}) =>
        /\ Len(treeFile.data) >= 2
        /\ Contains(treeFile.data[1], root_dir)
        /\ SubSeq(treeFile.data, 3, Len(treeFile.data)) = ClaimedListing(visited)

\* the path that remains after stripping the root prefix
StripRoot(path, root) ==
    IF startswith(path, root) THEN SubSeq(path, Len(root) + 1, Len(path)) ELSE path

\* C10 as stated: the level computed for every visited directory is the
\* number of separators in its path after the root prefix is stripped, that
\* is its number of levels below the root (0 for the root), also when a
\* name below the root repeats the root's text or the root ends with a
\* separator.
C10_Original ==
    \A i \in 1..Len(visited) :
        /\ visited[i].level = str_count(StripRoot(visited[i].path, root_dir), Sep)
        /\ visited[i].level = visited[i].depth

====
